---- MODULE Spec2Model ----
(***************************************************************************)
(* Model of regex-ring's RingSearcher (src/src/lib.rs): a ring buffer of   *)
(* the most recent input bytes, one forward DFA state per registered       *)
(* regex, and the reverse DFA scan that recovers the start of a match.     *)
(*                                                                         *)
(* The automata come from the regex_automata crate.  They are modelled as  *)
(* transition tables over a two-letter alphabet, one pair (forward,        *)
(* reverse) per regex, as regex_automata 0.1 builds them: the forward DFA  *)
(* is unanchored with leftmost-first semantics (a match state drops every  *)
(* lower-priority thread, the unanchored prefix included), the reverse DFA *)
(* is anchored with longest-match semantics.  State 0 is the dead state.   *)
(***************************************************************************)
EXTENDS Integers, Sequences, FiniteSets, TLC

\* ---------------------------------------------------------------- bounds

\* longest input fed by input_matches
MaxInput == 4
\* largest buffer_size given to new
MaxCap == 3
\* most regexes registered with add_regex
MaxSearches == 2
\* most push calls in a free sequence of API calls
MaxApiPush == 3
\* most regexes registered in a free sequence of API calls
MaxApiSearches == 1

\* a buffer_size that exceeds every input, as the 1024 of tests/basic.rs
LargeCap == MaxInput + 1

\* ------------------------------------------------------------- automata

\* the input alphabet: the two letters the regexes are written in
Bytes == {"a", "b"}

\* usize, scaled down: wrapping arithmetic is modulo 2^USIZE_BITS
USIZE_BITS == 16

USIZE_MOD == 2 ^ USIZE_BITS

\* Option<usize>
None == [some |-> FALSE, val |-> 0]

Some(n) == [some |-> TRUE, val |-> n]

unwrap_or(o, d) == IF o.some THEN o.val ELSE d

\* one row of a transition table: the next state on a and on b
Row(ta, tb) == [a |-> ta, b |-> tb]

\* The regexes of the model, each with its forward and reverse DFA.  A DFA
\* is [start, matches, delta]: delta[s] is the row of state s (s >= 1), and
\* state 0, the dead state, has no row.
Regexes ==
  [ lit_a  |-> \* a
      [ forward |-> [start |-> 1, matches |-> {2},
                     delta |-> << Row(2, 1), Row(0, 0) >>],
        reverse |-> [start |-> 1, matches |-> {2},
                     delta |-> << Row(2, 0), Row(0, 0) >>] ],
    lit_ab |-> \* ab
      [ forward |-> [start |-> 1, matches |-> {3},
                     delta |-> << Row(2, 1), Row(2, 3), Row(0, 0) >>],
        reverse |-> [start |-> 1, matches |-> {3},
                     delta |-> << Row(0, 2), Row(3, 0), Row(0, 0) >>] ],
    a_plus |-> \* a+
      [ forward |-> [start |-> 1, matches |-> {2},
                     delta |-> << Row(2, 1), Row(2, 0) >>],
        reverse |-> [start |-> 1, matches |-> {2},
                     delta |-> << Row(2, 0), Row(2, 0) >>] ],
    a_star |-> \* a*
      [ forward |-> [start |-> 1, matches |-> {1},
                     delta |-> << Row(1, 0) >>],
        reverse |-> [start |-> 1, matches |-> {1},
                     delta |-> << Row(1, 0) >>] ],
    a_plus_b |-> \* a+b
      [ forward |-> [start |-> 1, matches |-> {3},
                     delta |-> << Row(2, 1), Row(2, 3), Row(0, 0) >>],
        reverse |-> [start |-> 1, matches |-> {3},
                     delta |-> << Row(0, 2), Row(3, 0), Row(3, 0) >>] ],
    a_any_b |-> \* a[ab]*b
      [ forward |-> [start |-> 1, matches |-> {3},
                     delta |-> << Row(2, 1), Row(2, 3), Row(4, 3), Row(4, 3) >>],
        reverse |-> [start |-> 1, matches |-> {3},
                     delta |-> << Row(0, 2), Row(3, 2), Row(3, 2) >>] ] ]

RegexNames == DOMAIN Regexes

\* DFA::start_state
start_state(dfa) == dfa.start

\* DFA::is_dead_state
is_dead_state(dfa, s) == s = 0

\* DFA::is_match_state
is_match_state(dfa, s) == s \in dfa.matches

\* DFA::next_state (and next_state_unchecked: every state id is in range)
next_state(dfa, s, b) == IF s = 0 THEN 0 ELSE dfa.delta[s][b]

\* Regex::forward, Regex::reverse
forward(regex) == Regexes[regex].forward

reverse(regex) == Regexes[regex].reverse

\* the syntax of the regexes of the model
Syntax ==
  [ lit_a |-> "a", lit_ab |-> "ab", a_plus |-> "a+", a_star |-> "a*",
    a_plus_b |-> "a+b", a_any_b |-> "a[ab]*b" ]

\* the strings given to add_regex_str: the regexes' syntax, and two strings
\* that are no regex
RegexStrs == { Syntax[regex] : regex \in RegexNames } \cup { "(", "[a" }

\* RegexBuilder::build: the regex of the string, or an error
build(regex_str) ==
  IF \E regex \in RegexNames : Syntax[regex] = regex_str
  THEN [ok |-> TRUE,
        regex |-> CHOOSE regex \in RegexNames : Syntax[regex] = regex_str]
  ELSE [ok |-> FALSE, regex |-> "none"]

\* ---------------------------------------------------------------- state

VARIABLES
  buffer_size,  \* RingSearcher.buffer_size
  cap,          \* physical capacity of the VecDeque behind buffer
  head,         \* physical index of the VecDeque's front element
  buffer,       \* RingSearcher.buffer, oldest to newest
  position,     \* RingSearcher.position
  searches,     \* RingSearcher.searches
  stream,       \* history: every byte given to push, in order
  pc,           \* "new" | "run" | "done": where input_matches stands
  reports,      \* history: the callbacks input_matches has made
  ret           \* the value returned by the last query of the API

vars == << buffer_size, cap, head, buffer, position, searches, stream, pc,
           reports, ret >>

\* the value of ret when no query has returned since the last change
NoRet == [kind |-> "none"]

Max(x, y) == IF x >= y THEN x ELSE y

Min(x, y) == IF x <= y THEN x ELSE y

\* RingSearcher::new.  VecDeque::with_capacity allocates at least
\* buffer_size slots, and a deque of no slots allocates on its first push.
Init ==
  /\ buffer_size \in (0 .. MaxCap) \cup {LargeCap}
  /\ cap \in { Max(buffer_size, 1), Max(buffer_size, 1) + 1 }
  /\ head = 0
  /\ buffer = << >>
  /\ position = 0
  /\ searches = << >>
  /\ stream = << >>
  /\ pc = "new"
  /\ reports = << >>
  /\ ret = NoRet

\* ------------------------------------------------------------ operations

\* Iterator::rev over a sequence
RECURSIVE rev(_)
rev(s) == IF s = << >> THEN << >> ELSE Append(rev(Tail(s)), Head(s))

\* Iterator::skip
skip(s, n) == IF n >= Len(s) THEN << >> ELSE SubSeq(s, n + 1, Len(s))

\* Then(v) for the value v of an expression, evaluated once (a let binding)
bind(value, Then(_)) == CHOOSE r \in { Then(v) : v \in {value} } : TRUE

\* the loop of rfind_iter returning at the first match state
RECURSIVE rfind_loop_first(_, _, _, _, _)
rfind_loop_first(dfa, bytes, i, state, last_match) ==
  IF i > Len(bytes)
  THEN last_match
  ELSE LET after(next) ==
             IF is_dead_state(dfa, next)
             THEN last_match
             ELSE IF is_match_state(dfa, next)
                  THEN Some(i)
                  ELSE rfind_loop_first(dfa, bytes, i + 1, next, last_match)
       IN  bind(next_state(dfa, state, bytes[i]), after)

\* the loop of rfind_iter from byte i on (i counts from 1, the code's i + 1)
RECURSIVE rfind_loop(_, _, _, _, _)
rfind_loop(dfa, bytes, i, state, last_match) ==
  IF i > Len(bytes)
  THEN last_match
  ELSE LET after(next) ==
             IF is_dead_state(dfa, next)
             THEN last_match
             ELSE IF is_match_state(dfa, next)
                  THEN rfind_loop(dfa, bytes, i + 1, next, Some(i))
                  ELSE rfind_loop(dfa, bytes, i + 1, next, last_match)
       IN  bind(next_state(dfa, state, bytes[i]), after)

\* rfind_iter: the longest run of bytes, taken in the given order, that the
\* DFA accepts before it dies
rfind_iter(dfa, bytes) ==
  LET state == start_state(dfa)
  IN  IF is_dead_state(dfa, state)
      THEN None
      ELSE rfind_loop(dfa, bytes, 1, state,
                      IF is_match_state(dfa, state) THEN Some(0) ELSE None)

\* add_regex with is_match taken from the start state
new_search_started(regex) ==
  [ regex     |-> regex,
    state_id  |-> start_state(forward(regex)),
    is_match  |-> is_match_state(forward(regex), start_state(forward(regex))),
    was_match |-> FALSE ]

\* RingSearcher::add_regex: the new Search
new_search(regex) ==
  [ regex     |-> regex,
    state_id  |-> start_state(forward(regex)),
    is_match  |-> FALSE,
    was_match |-> FALSE ]

\* the body of push's loop with the dead state kept
step_search_stays_dead(search, input) ==
  LET dfa      == forward(search.regex)
      next     == next_state(dfa, search.state_id, input)
      is_match == is_match_state(dfa, next)
  IN  [ regex     |-> search.regex,
        state_id  |-> next,
        was_match |-> search.is_match,
        is_match  |-> is_match ]

\* the body of push's loop over the searches
step_search(search, input) ==
  LET dfa      == forward(search.regex)
      next     == next_state(dfa, search.state_id, input)
      is_match == is_match_state(dfa, next)
      state_id == IF is_dead_state(dfa, next) THEN start_state(dfa) ELSE next
  IN  [ regex     |-> search.regex,
        state_id  |-> state_id,
        was_match |-> search.is_match,
        is_match  |-> is_match ]

\* push dropping the newest byte of a full ring instead of the oldest
pushed_buffer_pop_back(input) ==
  LET popped == IF Len(buffer) + 1 > buffer_size /\ buffer # << >>
                THEN SubSeq(buffer, 1, Len(buffer) - 1) ELSE buffer
  IN  Append(popped, input)

\* the ring after push's pop_front (when full) and push_back
pushed_buffer(input) ==
  LET popped == IF Len(buffer) + 1 > buffer_size /\ buffer # << >>
                THEN Tail(buffer) ELSE buffer
  IN  Append(popped, input)

\* the physical index of the front after push's pop_front
pushed_head ==
  IF Len(buffer) + 1 > buffer_size /\ buffer # << >>
  THEN (head + 1) % cap ELSE head

\* RingSearcher::push
push(input) ==
  /\ buffer' = pushed_buffer(input)
  /\ head' = pushed_head
  /\ position' = position + 1
  /\ searches' = [i \in 1 .. Len(searches) |-> step_search(searches[i], input)]
  /\ stream' = Append(stream, input)
  /\ UNCHANGED << buffer_size, cap >>

\* the closure of matches taking the match to end at the byte just pushed
matches_one_at_position(i) ==
  LET search == searches[i]
      found(len) ==
        IF len.some
        THEN Some([ id |-> i - 1,
                    start |-> IF len.val = Len(buffer)
                              THEN None
                              ELSE Some(position - len.val),
                    end |-> position ])
        ELSE None
  IN  IF search.was_match /\ ~search.is_match
      THEN bind(rev(buffer), LAMBDA bytes :
             bind(rfind_iter(reverse(search.regex), skip(bytes, 1)), found))
      ELSE None

\* the closure of matches taking the end as an index into the ring instead
\* of a stream position
matches_one_ring_end(i) ==
  LET search == searches[i]
      found(len) ==
        IF len.some
        THEN Some([ id |-> i - 1,
                    start |-> IF len.val = Len(buffer)
                              THEN None
                              ELSE Some(Len(buffer) - len.val - 1),
                    end |-> Len(buffer) - 1 ])
        ELSE None
  IN  IF search.was_match /\ ~search.is_match
      THEN bind(rev(buffer), LAMBDA bytes :
             bind(rfind_iter(reverse(search.regex), skip(bytes, 1)), found))
      ELSE None

\* the closure of matches for the search of index i (search id i - 1)
matches_one(i) ==
  LET search == searches[i]
      found(len) ==
        IF len.some
        THEN Some([ id |-> i - 1,
                    start |-> IF len.val = Len(buffer)
                              THEN None
                              ELSE Some(position - len.val - 1),
                    end |-> position - 1 ])
        ELSE None
  IN  IF search.was_match /\ ~search.is_match
      THEN bind(rev(buffer), LAMBDA bytes :
             bind(rfind_iter(reverse(search.regex), skip(bytes, 1)), found))
      ELSE None

\* the closure of final_matches with the start taken one byte late
final_matches_one_late_start(i) ==
  LET search == searches[i]
      found(len) ==
        IF len.some
        THEN Some([ id |-> i - 1,
                    start |-> IF len.val = Len(buffer)
                              THEN None
                              ELSE Some(position - len.val + 1),
                    end |-> position ])
        ELSE None
  IN  IF search.is_match
      THEN bind(rev(buffer), LAMBDA bytes :
             bind(rfind_iter(reverse(search.regex), bytes), found))
      ELSE None

\* the closure of final_matches for the search of index i
final_matches_one(i) ==
  LET search == searches[i]
      found(len) ==
        IF len.some
        THEN Some([ id |-> i - 1,
                    start |-> IF len.val = Len(buffer)
                              THEN None
                              ELSE Some(position - len.val),
                    end |-> position ])
        ELSE None
  IN  IF search.is_match
      THEN bind(rev(buffer), LAMBDA bytes :
             bind(rfind_iter(reverse(search.regex), bytes), found))
      ELSE None

\* the closures applied to the searches from the last to the first
RECURSIVE each_search_backwards(_, _)
each_search_backwards(i, edge) ==
  IF i > Len(searches) THEN << >>
  ELSE LET kept(o) == IF o.some THEN << o.val >> ELSE << >>
       IN  each_search_backwards(i + 1, edge)
           \o bind(IF edge THEN matches_one(i) ELSE final_matches_one(i), kept)

\* the closures applied up to the first search that yields a report
RECURSIVE each_search_first(_, _)
each_search_first(i, edge) ==
  IF i > Len(searches) THEN << >>
  ELSE LET kept(o) == IF o.some THEN << o.val >>
                      ELSE each_search_first(i + 1, edge)
       IN  bind(IF edge THEN matches_one(i) ELSE final_matches_one(i), kept)

\* searches.iter().enumerate().filter_map(closure) from index i on: what
\* the closure of matches (edge) or of final_matches yields, in order
RECURSIVE each_search(_, _)
each_search(i, edge) ==
  IF i > Len(searches) THEN << >>
  ELSE LET kept(o) == IF o.some THEN << o.val >> ELSE << >>
       IN  bind(IF edge THEN matches_one(i) ELSE final_matches_one(i), kept)
           \o each_search(i + 1, edge)

\* RingSearcher::matches: the items the iterator yields, in order
matches == each_search(1, TRUE)

\* RingSearcher::final_matches: the items the iterator yields, in order
final_matches == each_search(1, FALSE)

\* VecDeque::as_slices: the ring's contents as the two physical runs
as_slices ==
  IF head + Len(buffer) <= cap
  THEN [head |-> buffer, tail |-> << >>]
  ELSE [head |-> SubSeq(buffer, 1, cap - head),
        tail |-> SubSeq(buffer, cap - head + 1, Len(buffer))]

\* a panic of the program
Panic == [panic |-> TRUE, head |-> << >>, tail |-> << >>]

\* usize subtraction: a build with overflow checks panics on underflow, a
\* build without them wraps
usize_sub(x, y, checked) ==
  IF x >= y THEN [panic |-> FALSE, val |-> x - y]
  ELSE IF checked THEN [panic |-> TRUE, val |-> 0]
  ELSE [panic |-> FALSE, val |-> (x - y) % USIZE_MOD]

\* saturating_sub with the subtraction forgotten: the tail window taken at
\* the offsets of the whole ring
saturating_sub_forgotten(x, y) == x

\* usize::saturating_sub
saturating_sub(x, y) == IF x >= y THEN x - y ELSE 0

\* slice_window: slicing panics when the clamped start exceeds the clamped end
slice_window(slice, start, end) ==
  LET s == Min(start, Len(slice))
      e == Min(end, Len(slice))
  IN  IF s > e THEN [panic |-> TRUE, val |-> << >>]
      ELSE [panic |-> FALSE, val |-> SubSeq(slice, s + 1, e)]

\* RingSearcher::match_data in a build with (checked) or without overflow
\* checks: the MatchData, or Panic
match_data(match_, checked) ==
  LET slices == as_slices
      offset == position - Len(buffer)
      start  == usize_sub(unwrap_or(match_.start, offset), offset, checked)
      end    == usize_sub(match_.end, offset, checked)
  IN  IF start.panic \/ end.panic THEN Panic
      ELSE LET h == slice_window(slices.head, start.val, end.val)
               t == slice_window(slices.tail,
                                 saturating_sub(start.val, Len(slices.head)),
                                 saturating_sub(end.val, Len(slices.head)))
           IN  IF h.panic \/ t.panic THEN Panic
               ELSE [panic |-> FALSE, head |-> h.val, tail |-> t.val]

\* MatchData::to_vec
to_vec(data) == data.head \o data.tail

\* the callbacks input_matches makes for the items of one iterator: the
\* search id, the match and its data, and for the record the stream position
\* and the ring's length at the callback
RECURSIVE callbacks(_, _, _)
callbacks(via, items, checked) ==
  IF items = << >> THEN << >>
  ELSE << [ via   |-> via,
            id    |-> Head(items).id,
            start |-> Head(items).start,
            end   |-> Head(items).end,
            data  |-> match_data(Head(items), checked),
            position |-> position,
            ring_len |-> Len(buffer) ] >>
       \o callbacks(via, Tail(items), checked)

\* -------------------------------------------------------------- actions

\* RingSearcher::add_regex: the search id it returns is the number of
\* searches before the call
add_regex(regex) ==
  /\ searches' = Append(searches, new_search(regex))
  /\ ret' = [kind |-> "add_regex", arg |-> regex, val |-> Len(searches)]
  /\ UNCHANGED << buffer_size, cap, head, buffer, position, stream >>

\* add_regex_str with the compiler's error dropped
add_regex_str_err_dropped(regex_str) ==
  \E built \in {build(regex_str)} :
    /\ searches' = IF built.ok
                   THEN Append(searches, new_search(built.regex))
                   ELSE searches
    /\ ret' = [kind |-> "add_regex_str", arg |-> regex_str]
    /\ UNCHANGED << buffer_size, cap, head, buffer, position, stream >>

\* RingSearcher::add_regex_str: Err(InvalidRegex) when the string does not
\* compile, else add_regex with its search id dropped, and Ok(())
add_regex_str(regex_str) ==
  \E built \in {build(regex_str)} :
    IF built.ok
    THEN /\ searches' = Append(searches, new_search(built.regex))
         /\ ret' = [kind |-> "add_regex_str", arg |-> regex_str]
         /\ UNCHANGED << buffer_size, cap, head, buffer, position, stream >>
    ELSE /\ ret' = [kind |-> "add_regex_str", arg |-> regex_str,
                    err |-> "InvalidRegex"]
         /\ UNCHANGED << buffer_size, cap, head, buffer, position, searches,
                         stream >>

\* add_regex, before input_matches is called
AddRegex(regex) ==
  /\ pc = "new"
  /\ Len(searches) < MaxSearches
  /\ add_regex(regex)
  /\ UNCHANGED << pc, reports >>

\* one turn of input_matches' loop: push the byte, then one callback for
\* every item of matches()
InputByte(b) ==
  /\ pc \in {"new", "run"}
  /\ Len(stream) < MaxInput
  /\ push(b)
  /\ \E checked \in BOOLEAN, items \in {matches'} :
       reports' = reports \o callbacks("matches", items, checked)'
  /\ pc' = "run"
  /\ UNCHANGED ret

\* the end of input_matches: one callback for every item of final_matches()
InputEnd ==
  /\ pc \in {"new", "run"}
  /\ \E checked \in BOOLEAN, items \in {final_matches} :
       reports' = reports \o callbacks("final", items, checked)
  /\ pc' = "done"
  /\ UNCHANGED << buffer_size, cap, head, buffer, position, searches, stream,
                  ret >>

Next ==
  \/ \E regex \in RegexNames : AddRegex(regex)
  \/ \E b \in Bytes : InputByte(b)
  \/ InputEnd

\* input_matches run once over an input, after the regexes are registered
Spec == Init /\ [][Next]_vars

\* the Match values given to match_data in a free sequence of calls
Matches ==
  [ start : {None} \cup { Some(n) : n \in 0 .. MaxApiPush + 1 },
    end   : 0 .. MaxApiPush + 1 ]

\* add_regex called directly, before the first push
ApiAddRegex(regex) ==
  /\ ret = NoRet
  /\ position = 0
  /\ Len(searches) < MaxApiSearches
  /\ add_regex(regex)
  /\ UNCHANGED << pc, reports >>

\* add_regex_str called directly, before the first push
ApiAddRegexStr(regex_str) ==
  /\ ret = NoRet
  /\ position = 0
  /\ build(regex_str).ok => Len(searches) < MaxApiSearches
  /\ add_regex_str(regex_str)
  /\ UNCHANGED << pc, reports >>

\* push called directly: it takes &mut self, so no value borrowed from the
\* searcher is alive
ApiPush(b) ==
  /\ ret = NoRet
  /\ Len(stream) < MaxApiPush
  /\ push(b)
  /\ UNCHANGED << pc, reports, ret >>

\* matches() taking each edge off its search as it reports it
ApiMatches_draining ==
  /\ ret = NoRet
  /\ ret' = [kind |-> "matches", val |-> matches]
  /\ searches' = [i \in 1 .. Len(searches) |->
                    [searches[i] EXCEPT !.was_match = FALSE]]
  /\ UNCHANGED << buffer_size, cap, head, buffer, position, stream, pc,
                  reports >>

\* matches() called directly and its iterator drained
ApiMatches ==
  /\ ret = NoRet
  /\ ret' = [kind |-> "matches", val |-> matches]
  /\ UNCHANGED << buffer_size, cap, head, buffer, position, searches, stream,
                  pc, reports >>

\* final_matches() called directly and its iterator drained
ApiFinalMatches ==
  /\ ret = NoRet
  /\ ret' = [kind |-> "final_matches", val |-> final_matches]
  /\ UNCHANGED << buffer_size, cap, head, buffer, position, searches, stream,
                  pc, reports >>

\* match_data called directly with any Match, in either build
ApiMatchData(match_, checked) ==
  /\ ret = NoRet
  /\ ret' = [kind |-> "match_data", arg |-> match_,
             val |-> match_data(match_, checked)]
  /\ UNCHANGED << buffer_size, cap, head, buffer, position, searches, stream,
                  pc, reports >>

\* the caller drops the value the last query returned
ApiDrop ==
  /\ ret # NoRet
  /\ ret' = NoRet
  /\ UNCHANGED << buffer_size, cap, head, buffer, position, searches, stream,
                  pc, reports >>

NextApi ==
  \/ \E regex \in RegexNames : ApiAddRegex(regex)
  \/ \E regex_str \in RegexStrs : ApiAddRegexStr(regex_str)
  \/ \E b \in Bytes : ApiPush(b)
  \/ ApiMatches
  \/ ApiFinalMatches
  \/ \E match_ \in Matches, checked \in BOOLEAN : ApiMatchData(match_, checked)
  \/ ApiDrop

\* any sequence of calls of the public API
SpecApi == Init /\ [][NextApi]_vars

\* a DFA whose start state is the dead state
DeadStart == [start |-> 0, matches |-> {}, delta |-> << >>]

\* the DFAs rfind_iter is applied to
Dfas ==
  { forward(regex) : regex \in RegexNames }
    \cup { reverse(regex) : regex \in RegexNames } \cup { DeadStart }

\* a searcher with room for the whole input, after any input was pushed
InitRfind ==
  /\ buffer_size = LargeCap
  /\ cap = LargeCap
  /\ head = 0
  /\ buffer \in UNION { [1 .. n -> Bytes] : n \in 0 .. MaxInput }
  /\ position = Len(buffer)
  /\ searches = << >>
  /\ stream = buffer
  /\ pc = "new"
  /\ reports = << >>
  /\ ret = NoRet

\* rfind_iter applied to a DFA and the ring's bytes, newest first
RfindIter(dfa) ==
  /\ ret = NoRet
  /\ \E bytes \in {rev(buffer)} :
       ret' = [kind |-> "rfind_iter", dfa |-> dfa, bytes |-> bytes,
               val |-> rfind_iter(dfa, bytes)]
  /\ UNCHANGED << buffer_size, cap, head, buffer, position, searches, stream,
                  pc, reports >>

NextRfind == \E dfa \in Dfas : RfindIter(dfa)

\* rfind_iter on its own, over every DFA and every byte sequence
SpecRfind == InitRfind /\ [][NextRfind]_vars

\* --------------------------------------------------------------- claims

\* the regex a callback's search id stands for
regex_of(r) == searches[r.id + 1].regex

\* the stream position of the oldest byte in the ring at a callback
offset_of(r) == r.position - r.ring_len

\* the length of the longest string ending at stream position r.end that
\* the callback's regex accepts, taken over the whole input
full_len(r) == rfind_iter(reverse(regex_of(r)), rev(SubSeq(stream, 1, r.end)))

\* the indices of the callbacks made from matches() / from final_matches()
Via(via) == { k \in 1 .. Len(reports) : reports[k].via = via }

\* C1: every callback of input_matches whose match has start = Some(s) gets
\* match data that does not panic and whose head followed by its tail is the
\* input at stream positions [s, end), so that end = s + the data's length.
C1_DataIsMatchedInput ==
  \A k \in 1 .. Len(reports) :
    LET r == reports[k]
    IN  r.start.some =>
          /\ ~r.data.panic
          /\ to_vec(r.data) = SubSeq(stream, r.start.val + 1, r.end)
          /\ r.end = r.start.val + Len(to_vec(r.data))

\* a callback with a start whose data lies partly in the ring's head slice
\* and partly in its tail slice
C1_Witness ==
  \E k \in 1 .. Len(reports) :
    /\ reports[k].start.some
    /\ reports[k].data.head # << >>
    /\ reports[k].data.tail # << >>

\* C2: for every reported match, start is absent if and only if the first
\* byte of the match is no longer in the ring (stated for the capacities of
\* at least 1, where the ring stays within its capacity)
C2_StartAbsentIffEvicted ==
  buffer_size >= 1 =>
    \A k \in 1 .. Len(reports) :
      LET r == reports[k]
          l == full_len(r)
      IN  l.some => (~r.start.some <=> r.end - l.val < offset_of(r))

\* C3: a reported match longer than the ring's capacity has start = None
\* and its data are the last capacity bytes of the match
C3_LongMatchKeepsCapacityBytes ==
  \A k \in 1 .. Len(reports) :
    LET r == reports[k]
        l == full_len(r)
    IN  (buffer_size >= 1 /\ l.some /\ l.val > buffer_size) =>
          /\ ~r.start.some
          /\ ~r.data.panic
          /\ to_vec(r.data) = SubSeq(stream, r.end - buffer_size + 1, r.end)

\* C4: every reported match m has m.end <= stream_position, and when
\* m.start = Some(s), s < m.end and s >= stream_position - ring.len()
\* (stated for the capacities of at least 1)
C4_MatchWithinWindow ==
  buffer_size >= 1 =>
    \A k \in 1 .. Len(reports) :
      LET r == reports[k]
      IN  /\ r.end <= r.position
          /\ r.start.some =>
               /\ r.start.val < r.end
               /\ r.start.val >= r.position - r.ring_len

\* the literal a regex accepts and nothing else, for the regexes that are one
Literal == [ lit_a |-> << "a" >>, lit_ab |-> << "a", "b" >> ]

\* the number of non-overlapping occurrences of lit in s, left to right
RECURSIVE CountOcc(_, _)
CountOcc(lit, s) ==
  IF Len(s) < Len(lit) THEN 0
  ELSE IF SubSeq(s, 1, Len(lit)) = lit
       THEN 1 + CountOcc(lit, SubSeq(s, Len(lit) + 1, Len(s)))
       ELSE CountOcc(lit, Tail(s))

\* C5: with a capacity larger than the input, a regex accepting exactly one
\* literal gets, over the whole run, one report per non-overlapping
\* occurrence of the literal in the input
C5_OneReportPerOccurrence ==
  (pc = "done" /\ buffer_size = LargeCap) =>
    \A i \in 1 .. Len(searches) :
      searches[i].regex \in DOMAIN Literal =>
        Cardinality({ k \in 1 .. Len(reports) : reports[k].id = i - 1 })
          = CountOcc(Literal[searches[i].regex], stream)

\* C6: when input_matches has run over an n-byte input, every report made
\* from matches() has end <= n - 1 and every report made from
\* final_matches() has end = n
C6_LastByteOnlyByFinal ==
  pc = "done" =>
    /\ \A k \in Via("matches") : reports[k].end <= Len(stream) - 1
    /\ \A k \in Via("final") : reports[k].end = Len(stream)

\* a finished run with a report from matches() and one from final_matches()
C6_Witness ==
  /\ pc = "done"
  /\ Via("matches") # {}
  /\ Via("final") # {}

\* C7: the ring never holds more bytes than the capacity given to new
C7_RingWithinCapacity == Len(buffer) <= buffer_size

\* C8: position is the number of push calls made, and the ring holds, oldest
\* to newest, the bytes at stream positions [position - ring.len(), position)
C8_PositionCountsPushes ==
  /\ position = Len(stream)
  /\ Len(buffer) <= position
  /\ buffer = SubSeq(stream, position - Len(buffer) + 1, position)

\* a query answered after the ring has dropped bytes and still holds several
C8_Witness ==
  /\ ret # NoRet
  /\ Len(buffer) >= 2
  /\ position > Len(buffer)

\* the length match_data is to return for a match: the part of [start, end)
\* inside the ring, nothing when that is empty
clipped_len(match_) ==
  LET offset == position - Len(buffer)
  IN  Max(0, Min(match_.end, position)
             - Max(unwrap_or(match_.start, offset), offset))

\* C9: match_data fails for no Match, and returns slices whose lengths add
\* up to the length of the part of the match inside the ring (stated for
\* the capacities of at least 1)
C9_MatchDataClips ==
  (buffer_size >= 1 /\ ret.kind = "match_data") =>
    /\ ~ret.val.panic
    /\ Len(ret.val.head) + Len(ret.val.tail) = clipped_len(ret.arg)

\* C10: the reports made from matches() for one search never include two
\* with the same end
C10_DistinctEnds ==
  \A j, k \in Via("matches") :
    (j # k /\ reports[j].id = reports[k].id) => reports[j].end # reports[k].end

\* two reports made from matches() for the same search
C10_Witness ==
  \E j, k \in Via("matches") : j # k /\ reports[j].id = reports[k].id

\* C11: with capacity 1 and the regex a, every a of the input that does not
\* directly follow another a is reported once the run is over: by
\* final_matches() when it is the last byte, else by matches() after the
\* next push, with empty data
C11_SingleByteCapacityOne ==
  (pc = "done" /\ buffer_size = 1) =>
    \A i \in 1 .. Len(searches) :
      searches[i].regex = "lit_a" =>
        \A p \in 1 .. Len(stream) :
          (stream[p] = "a" /\ (p = 1 \/ stream[p - 1] # "a")) =>
            IF p = Len(stream)
            THEN \E k \in Via("final") :
                   reports[k].id = i - 1 /\ reports[k].end = p
            ELSE \E k \in Via("matches") :
                   /\ reports[k].id = i - 1
                   /\ reports[k].end = p
                   /\ to_vec(reports[k].data) = << >>

\* the language of a regex, read off its syntax
Language(regex, s) ==
  CASE regex = "lit_a"    -> s = << "a" >>
    [] regex = "lit_ab"   -> s = << "a", "b" >>
    [] regex = "a_plus"   -> Len(s) >= 1 /\ \A k \in 1 .. Len(s) : s[k] = "a"
    [] regex = "a_star"   -> \A k \in 1 .. Len(s) : s[k] = "a"
    [] regex = "a_plus_b" -> /\ Len(s) >= 2
                             /\ s[Len(s)] = "b"
                             /\ \A k \in 1 .. Len(s) - 1 : s[k] = "a"
    [] regex = "a_any_b"  -> Len(s) >= 2 /\ s[1] = "a" /\ s[Len(s)] = "b"

\* the state of a DFA after the first k of the bytes
RECURSIVE Run(_, _, _)
Run(dfa, bytes, k) ==
  IF k = 0 THEN start_state(dfa)
  ELSE next_state(dfa, Run(dfa, bytes, k - 1), bytes[k])

\* every string of at most n bytes
Strings(n) == UNION { [1 .. k -> Bytes] : k \in 0 .. n }

\* the reverse DFA of every regex accepts exactly the reversals of the
\* regex's language
ReverseIsProper ==
  \A regex \in RegexNames : \A s \in Strings(MaxInput) :
    is_match_state(reverse(regex), Run(reverse(regex), rev(s), Len(s)))
      <=> Language(regex, s)

\* C12: the reverse DFAs being proper, a report with start = Some(s) denotes
\* bytes [s, end) of the stream that are in the language of the report's regex
C12_ReportedBytesAccepted ==
  ReverseIsProper =>
    \A k \in 1 .. Len(reports) :
      reports[k].start.some =>
        /\ reports[k].start.val <= reports[k].end
        /\ reports[k].end <= Len(stream)
        /\ Language(regex_of(reports[k]),
                    SubSeq(stream, reports[k].start.val + 1, reports[k].end))

\* a match of two bytes or more is reported with its start, by each query
C12_Witness ==
  /\ ReverseIsProper
  /\ \E k \in Via("matches") :
       reports[k].start.some /\ reports[k].end - reports[k].start.val >= 2
  /\ \E k \in Via("final") :
       reports[k].start.some /\ reports[k].end - reports[k].start.val >= 2

\* C13: before the first push, whatever regexes are registered, matches()
\* and final_matches() yield nothing
C13_NothingBeforePush ==
  (position = 0 /\ ret.kind \in {"matches", "final_matches"}) =>
    ret.val = << >>

\* final_matches() has returned before the first push, with a regex
\* registered whose forward start state is a match state
C13_Witness ==
  /\ position = 0
  /\ ret.kind = "final_matches"
  /\ \E i \in 1 .. Len(searches) :
       is_match_state(forward(searches[i].regex),
                      start_state(forward(searches[i].regex)))

\* C14: add_regex returns the index at which the regex was inserted, counted
\* from 0, and the reports of one call of matches() or final_matches() come
\* in strictly ascending order of search id, each id that of a registered
\* regex
C14_IdsAscending ==
  /\ ret.kind = "add_regex" =>
       /\ ret.val = Len(searches) - 1
       /\ searches[ret.val + 1].regex = ret.arg
  /\ \A k \in 1 .. Len(reports) : reports[k].id \in 0 .. Len(searches) - 1
  /\ \A j, k \in 1 .. Len(reports) :
       ( /\ j < k
         /\ reports[j].via = reports[k].via
         /\ reports[j].position = reports[k].position )
       => reports[j].id < reports[k].id

\* the second regex registered got id 1, and one call of each query has
\* yielded two reports
C14_Witness ==
  /\ ret.kind = "add_regex" /\ ret.val = 1
  /\ \A via \in {"matches", "final"} :
       \E j, k \in Via(via) :
         j < k /\ reports[j].position = reports[k].position

\* the searcher proper: what a call can change
searcher == << buffer_size, cap, head, buffer, position, searches >>

\* C15: a call of add_regex_str returns the error InvalidRegex exactly when
\* the compiler rejects the string, and then leaves the searcher as it was;
\* otherwise it appends one search, for the compiled regex, whose id is the
\* number of searches before the call.  No other call returns an error.
C15_InvalidRegexOnly ==
  [][ /\ ret'.kind = "add_regex_str" =>
           /\ "err" \in DOMAIN ret' <=> ~build(ret'.arg).ok
           /\ IF "err" \in DOMAIN ret'
              THEN ret'.err = "InvalidRegex" /\ UNCHANGED searcher
              ELSE /\ searches' =
                        Append(searches, new_search(build(ret'.arg).regex))
                   /\ UNCHANGED << buffer_size, cap, head, buffer, position >>
      /\ ret'.kind # "add_regex_str" => "err" \notin DOMAIN ret' ]_vars

\* add_regex_str has returned InvalidRegex on a searcher that has a search
C15_Witness ==
  /\ ret.kind = "add_regex_str"
  /\ "err" \in DOMAIN ret
  /\ Len(searches) >= 1

\* C16: after a push on a ring of capacity 1 or more, matches() yields a
\* report for a search if and only if the search's (was_match, is_match) is
\* (true, false)
C16_ReportIffEdge ==
  (ret.kind = "matches" /\ buffer_size >= 1 /\ position >= 1) =>
    \A i \in 1 .. Len(searches) :
      (\E k \in 1 .. Len(ret.val) : ret.val[k].id = i - 1)
        <=> (searches[i].was_match /\ ~searches[i].is_match)

\* C17: no step leaves a search in the dead state of its forward DFA, and a
\* push whose byte leads a search to the dead state sets is_match to what
\* the dead state is (no match), was_match to the is_match of before, and
\* the state to the forward start state
C17_NeverDeadAtRest ==
  [][ /\ \A i \in 1 .. Len(searches') :
           ~is_dead_state(forward(searches'[i].regex), searches'[i].state_id)
      /\ position' = position + 1 =>
           \A i \in 1 .. Len(searches) :
             LET dfa  == forward(searches[i].regex)
                 next == next_state(dfa, searches[i].state_id,
                                    stream'[Len(stream')])
             IN  is_dead_state(dfa, next) =>
                   /\ searches'[i].is_match = is_match_state(dfa, next)
                   /\ ~searches'[i].is_match
                   /\ searches'[i].was_match = searches[i].is_match
                   /\ searches'[i].state_id = start_state(dfa) ]_vars

\* a search that was in a match state has been set back to the start state
\* by a byte that led it to the dead state
C17_Witness ==
  \E i \in 1 .. Len(searches) :
    /\ searches[i].regex = "lit_a"
    /\ searches[i].was_match /\ ~searches[i].is_match
    /\ searches[i].state_id = start_state(forward("lit_a"))

\* the lengths k such that the DFA is in a match state after the first k
\* bytes and in no dead state up to there
Accepted(dfa, bytes) ==
  { k \in 0 .. Len(bytes) :
      /\ is_match_state(dfa, Run(dfa, bytes, k))
      /\ \A j \in 0 .. k : ~is_dead_state(dfa, Run(dfa, bytes, j)) }

\* C18: rfind_iter returns the largest length the DFA accepts before its
\* first dead state, and nothing when there is no such length
C18_LongestReverseRun ==
  ret.kind = "rfind_iter" =>
    LET ks == Accepted(ret.dfa, ret.bytes)
    IN  ret.val = IF ks = {} THEN None
                  ELSE Some(CHOOSE k \in ks : \A j \in ks : j <= k)

\* rfind_iter has returned the longer of two accepted lengths, short of the
\* bytes it was given because the DFA went dead
C18_Witness ==
  /\ ret.kind = "rfind_iter"
  /\ Cardinality(Accepted(ret.dfa, ret.bytes)) >= 2
  /\ ret.val.some
  /\ ret.val.val < Len(ret.bytes)

\* the return values of the queries
Queries == {"matches", "final_matches", "match_data"}

\* C19: a call of matches(), final_matches() or match_data leaves the
\* searcher as it was, so that the same call made again returns the same
\* value; a step that changes the searcher is a push or a registration
C19_QueriesArePure ==
  [][ /\ ret'.kind \in Queries => UNCHANGED << searcher, stream >>
      /\ ret'.kind = "matches" => ret'.val = matches'
      /\ ret'.kind = "final_matches" => ret'.val = final_matches'
      /\ ret'.kind = "match_data" =>
           \E checked \in BOOLEAN, match_ \in {ret'.arg} :
             ret'.val = match_data(match_, checked)'
      /\ searcher' # searcher =>
           \/ /\ position' = position + 1
              /\ searches' = [i \in 1 .. Len(searches) |->
                                step_search(searches[i], stream'[Len(stream')])]
           \/ /\ ret'.kind \in {"add_regex", "add_regex_str"}
              /\ Len(searches') = Len(searches) + 1
              /\ SubSeq(searches', 1, Len(searches)) = searches
              /\ UNCHANGED << buffer_size, cap, head, buffer, position >> ]_vars

\* matches() has returned a report, and would return it again
C19_Witness ==
  /\ ret.kind = "matches"
  /\ ret.val # << >>
  /\ ret.val = matches

\* A searcher of the same capacity with the one regex registered: what
\* matches() yields when its search and ring are as given after k pushes, ...
solo_matches(search, ring, k) ==
  IF search.was_match /\ ~search.is_match
  THEN bind(rfind_iter(reverse(search.regex), skip(rev(ring), 1)),
            LAMBDA len :
              IF len.some
              THEN << [ via |-> "matches",
                        start |-> IF len.val = Len(ring)
                                  THEN None ELSE Some(k - len.val - 1),
                        end |-> k - 1 ] >>
              ELSE << >>)
  ELSE << >>

\* ... what final_matches() yields, ...
solo_final_matches(search, ring, k) ==
  IF search.is_match
  THEN bind(rfind_iter(reverse(search.regex), rev(ring)),
            LAMBDA len :
              IF len.some
              THEN << [ via |-> "final",
                        start |-> IF len.val = Len(ring)
                                  THEN None ELSE Some(k - len.val),
                        end |-> k ] >>
              ELSE << >>)
  ELSE << >>

\* ... its ring after the push of a byte, ...
solo_pushed(ring, input) ==
  Append(IF Len(ring) + 1 > buffer_size /\ ring # << >>
         THEN Tail(ring) ELSE ring, input)

\* ... and the matches input_matches reports from the k-th byte of the input
\* on, the final ones too if the input has ended
RECURSIVE solo_reports(_, _, _, _, _)
solo_reports(search, ring, input, k, ended) ==
  IF k > Len(input)
  THEN IF ended THEN solo_final_matches(search, ring, Len(input)) ELSE << >>
  ELSE bind(step_search(search, input[k]), LAMBDA stepped :
         bind(solo_pushed(ring, input[k]), LAMBDA pushed :
           solo_matches(stepped, pushed, k)
           \o solo_reports(stepped, pushed, input, k + 1, ended)))

\* the matches among the first k callbacks that carry the search id
RECURSIVE reports_of(_, _)
reports_of(id, k) ==
  IF k = 0 THEN << >>
  ELSE reports_of(id, k - 1)
       \o IF reports[k].id = id
          THEN << [ via |-> reports[k].via, start |-> reports[k].start,
                    end |-> reports[k].end ] >>
          ELSE << >>

\* C20: the matches reported for a regex registered with others are, in
\* order, the matches reported for it when it is registered alone, for the
\* same input and capacity
C20_PatternsIndependent ==
  \A i \in 1 .. Len(searches) :
    reports_of(i - 1, Len(reports)) =
      solo_reports(new_search(searches[i].regex), << >>, stream, 1,
                   pc = "done")

\* two different regexes have been reported from one call of matches() and
\* from one call of final_matches()
C20_Witness ==
  /\ pc = "done"
  /\ Len(searches) = 2
  /\ searches[1].regex # searches[2].regex
  /\ \A via \in {"matches", "final"} :
       \E j, k \in Via(via) :
         j < k /\ reports[j].position = reports[k].position

====
